---- MODULE Spec2Model ----
(***************************************************************************)
(* importmem: the graph engine of src/src/importmem/__init__.py.           *)
(*                                                                         *)
(* A module name is a Python string.  It is modelled by the sequence of    *)
(* its newline-separated lines: a name made by _module_name is one line,   *)
(* <<"a">>, and "\n".join(loop) is the concatenation of the lines of the   *)
(* members of loop.  An import path is modelled by the sequence of its     *)
(* dot-separated components: "a.x" is <<"a", "x">>.                        *)
(*                                                                         *)
(* Spec is main of cli.py: get_modules, then collapse_modules on what it   *)
(* returns.  SpecCollapse is collapse_modules called on any registry with  *)
(* no self-loop and no dangling edge; SpecRss is set_rss_for_modules       *)
(* called on any such registry.  SpecDangling is collapse_modules called   *)
(* on a registry whose edges may point to names that are not keys, and     *)
(* SpecDot is print_dot, where a name is the sequence of its characters.   *)
(* Where the code iterates over a set, or over the tracer's list, every    *)
(* order is a possible step.                                               *)
(***************************************************************************)
EXTENDS Integers, Sequences, FiniteSets, TLC

\* ------------------------------------------------------------- bounds
\* The import paths the tracer may report (the installed packages).
Paths == {<<"a">>, <<"a", "x">>, <<"b">>, <<"c">>}

\* The root package given on the command line: a dotted path, whose module
\* is named by its first component.  (The root "a" gives the same runs with
\* the paths "a" and "a.x" exchanged: both belong to the module "a".)
RootPkgs == {<<"a", "x">>}

\* The largest number of import paths one tracer call reports.
MaxImports == 2

\* The module names of the registries given directly to collapse_modules.
Names == {<<"a">>, <<"b">>, <<"c">>, <<"d">>}

\* The largest peak resident set size the memory probe reports.
MaxRss == 2

VARIABLES
  pc,           \* the statement the program is at
  get_imports,  \* the import tracer: import path -> set of import paths
  root_pkg,     \* get_modules' argument
  modules,      \* the registry: name -> Module
  queue,        \* get_modules' work list of import paths
  calls,        \* history: how often _get_imports was called per path
  start_name,   \* collapse_modules' root name
  prune_queue,  \* collapse_modules' work list of the pruning phase
  mod_name,     \* the node the pruning phase is at
  before,       \* history: the registry and root before the last merge
  loop,         \* the cycle the last _detect_loop call returned
  merges,       \* history: the number of merges done
  initial,      \* history: the registry collapse_modules was given
  pruned,       \* history: the registry and root when pruning began
  probed,       \* history: per module set_rss_for_modules has done, its probes
  exited,       \* history: the wait status of the last memory probe
  counter,      \* print_dot's counter
  node_names,   \* print_dot's node_names: module name -> node identifier
  dot_edges     \* the edges print_dot has written, as pairs of identifiers

vars == <<pc, get_imports, root_pkg, modules, queue, calls, start_name,
          prune_queue, mod_name, before, loop, merges, initial, pruned,
          probed, exited, counter, node_names, dot_edges>>

\* --------------------------------------------------------- sequences
Range(s) == {s[i] : i \in 1..Len(s)}

\* list.index: the first position of x in s.
Index(s, x) == CHOOSE i \in 1..Len(s) : s[i] = x /\ \A j \in 1..(i - 1) : s[j] # x

RECURSIVE Orders(_)
\* Every order in which a set (or a list whose order is not fixed) is iterated.
Orders(S) ==
  IF S = {} THEN {<<>>}
  ELSE UNION {{<<x>> \o t : t \in Orders(S \ {x})} : x \in S}

\* Mutant of Join: the composite takes the name of its first member.
Join_first(names) == Head(names)

RECURSIVE Join(_)
\* "\n".join(names): the lines of all names, in order.
Join(names) ==
  IF names = <<>> THEN <<>> ELSE Head(names) \o Join(Tail(names))

\* ------------------------------------------------------------ Module
\* Module.__init__: the name is the registry key.
Module == [packages |-> {}, dependencies |-> {}, own_rss |-> 0, total_rss |-> 0]

\* Mutant of module_name: the last component, split(".")[-1].
module_name_last(import_path) == <<import_path[Len(import_path)]>>

\* _module_name: import_path.split(".")[0], as a one-line name.
module_name(import_path) == <<import_path[1]>>

Put(f, k, v) == [x \in DOMAIN f \cup {k} |-> IF x = k THEN v ELSE f[x]]

Del(f, k) == [x \in DOMAIN f \ {k} |-> f[x]]

NoModules == [x \in {} |-> Module]

\* --------------------------------------------------------- get_modules
RECURSIVE for_imports(_, _, _, _)
\* The for loop of get_modules over the tracer's list: each path is queued,
\* and its module becomes a dependency unless it is the module itself.
for_imports(name, mod, q, imports) ==
  IF imports = <<>> THEN [mod |-> mod, queue |-> q]
  ELSE LET dep == module_name(Head(imports))
           m2 == IF dep = name THEN mod
                 ELSE [mod EXCEPT !.dependencies = @ \cup {dep}]
       IN for_imports(name, m2, Append(q, Head(imports)), Tail(imports))

\* Mutant of processed: the check is missing.
processed_never(mod, pkg) == FALSE

\* The check that skips an import path get_modules has expanded already.
processed(mod, pkg) == pkg \in mod.packages

\* One iteration of the while loop of get_modules.
GetModulesStep ==
  /\ pc = "get_modules"
  /\ queue # <<>>
  /\ LET pkg == queue[Len(queue)]
         q == SubSeq(queue, 1, Len(queue) - 1)
         name == module_name(pkg)
         mod == IF name \in DOMAIN modules THEN modules[name] ELSE Module
     IN IF processed(mod, pkg)
        THEN /\ modules' = Put(modules, name, mod)
             /\ queue' = q
             /\ calls' = calls
        ELSE \E imports \in Orders(get_imports[pkg]) :
               LET r == for_imports(name, [mod EXCEPT !.packages = @ \cup {pkg}],
                                    q, imports)
               IN /\ modules' = Put(modules, name, r.mod)
                  /\ queue' = r.queue
                  /\ calls' = [calls EXCEPT ![pkg] = @ + 1]
  /\ UNCHANGED <<counter, node_names, dot_edges>>
  /\ UNCHANGED <<pc, get_imports, root_pkg, start_name, prune_queue, mod_name,
                 before, loop, merges, initial, pruned, probed, exited>>

\* get_modules returns (modules, root) and main calls collapse_modules with them.
GetModulesReturn ==
  /\ pc = "get_modules"
  /\ queue = <<>>
  /\ pc' = "collapse"
  /\ start_name' = module_name(root_pkg)
  /\ initial' = modules
  /\ UNCHANGED <<counter, node_names, dot_edges>>
  /\ UNCHANGED <<get_imports, root_pkg, modules, queue, calls, prune_queue,
                 mod_name, before, loop, merges, pruned, probed, exited>>

\* -------------------------------------------------------- _detect_loop
None == [kind |-> "None", loop |-> <<>>]

RECURSIVE detect_loop_root_only(_, _, _)
\* Mutant of detect_loop: only a return to the first name of the path is
\* reported; any other revisit ends the branch.
detect_loop_root_only(mods, name, visited) ==
  IF name \in Range(visited)
  THEN IF name = visited[1] THEN {[kind |-> "loop", loop |-> visited]} ELSE {None}
  ELSE LET v == Append(visited, name)
       IN IF name \notin DOMAIN mods
          THEN {[kind |-> "Exception", loop |-> v]}
          ELSE LET found == UNION {detect_loop_root_only(mods, dep, v) \ {None} :
                                     dep \in mods[name].dependencies}
               IN IF found = {} THEN {None} ELSE found

RECURSIVE detect_loop_unchecked(_, _, _)
\* Mutant of detect_loop: a name that is not in the registry is taken for a
\* module without dependencies instead of raising.
detect_loop_unchecked(mods, name, visited) ==
  IF name \in Range(visited)
  THEN {[kind |-> "loop", loop |-> SubSeq(visited, Index(visited, name), Len(visited))]}
  ELSE LET v == Append(visited, name)
       IN IF name \notin DOMAIN mods
          THEN {None}
          ELSE LET found == UNION {detect_loop_unchecked(mods, dep, v) \ {None} :
                                     dep \in mods[name].dependencies}
               IN IF found = {} THEN {None} ELSE found

RECURSIVE detect_loop_whole_path(_, _, _)
\* Mutant of detect_loop: the whole path is returned, not its part from the
\* revisited name on.
detect_loop_whole_path(mods, name, visited) ==
  IF name \in Range(visited)
  THEN {[kind |-> "loop", loop |-> visited]}
  ELSE LET v == Append(visited, name)
       IN IF name \notin DOMAIN mods
          THEN {[kind |-> "Exception", loop |-> v]}
          ELSE LET found == UNION {detect_loop_whole_path(mods, dep, v) \ {None} :
                                     dep \in mods[name].dependencies}
               IN IF found = {} THEN {None} ELSE found

RECURSIVE detect_loop_off_by_one(_, _, _)
\* Mutant of detect_loop: the slice starts one place after the revisited
\* name.
detect_loop_off_by_one(mods, name, visited) ==
  IF name \in Range(visited)
  THEN {[kind |-> "loop",
         loop |-> SubSeq(visited, Index(visited, name) + 1, Len(visited))]}
  ELSE LET v == Append(visited, name)
       IN IF name \notin DOMAIN mods
          THEN {[kind |-> "Exception", loop |-> v]}
          ELSE LET found == UNION {detect_loop_off_by_one(mods, dep, v) \ {None} :
                                     dep \in mods[name].dependencies}
               IN IF found = {} THEN {None} ELSE found

RECURSIVE detect_loop(_, _, _)
\* The results _detect_loop can give over all iteration orders of the
\* dependency sets: the for loop returns the first result that is not None,
\* and any dependency whose search finds something can come first.
detect_loop(mods, name, visited) ==
  IF name \in Range(visited)
  THEN {[kind |-> "loop", loop |-> SubSeq(visited, Index(visited, name), Len(visited))]}
  ELSE LET v == Append(visited, name)
       IN IF name \notin DOMAIN mods
          THEN {[kind |-> "Exception", loop |-> v]}
          ELSE LET found == UNION {detect_loop(mods, dep, v) \ {None} :
                                     dep \in mods[name].dependencies}
               IN IF found = {} THEN {None} ELSE found

\* ---------------------------------------------------- _rename_dependency
\* Mutant of rename_dependency: nothing is renamed.
rename_dependency_skip(mods, name, new_name) == mods

\* Mutant of rename_dependency: the edge is removed and the new one not added.
rename_dependency_drop(mods, name, new_name) ==
  [k \in DOMAIN mods |-> [mods[k] EXCEPT !.dependencies = @ \ {name}]]

rename_dependency(mods, name, new_name) ==
  [k \in DOMAIN mods |->
     IF name \in mods[k].dependencies
     THEN [mods[k] EXCEPT !.dependencies = (@ \ {name}) \cup {new_name}]
     ELSE mods[k]]

\* ------------------------------------------------------ collapse_modules
\* A merge in progress: modules is the registry without new_module, listed
\* tells whether modules[new_name] is new_module (the registry holds the
\* object, so what is added to new_module shows in the registry while it is
\* listed), and raised tells whether a KeyError was raised.
RECURSIVE fold_members_keep(_, _, _, _)
\* Mutant of fold_members: the members are not deleted from the registry.
fold_members_keep(st, new_name, members, i) ==
  IF i > Len(members) \/ st.raised THEN st
  ELSE LET mod == members[i]
       IN IF mod \notin DOMAIN st.modules
          THEN [st EXCEPT !.raised = TRUE]
          ELSE fold_members_keep(
                 [st EXCEPT
                    !.new_module.packages = @ \cup st.modules[mod].packages,
                    !.new_module.dependencies = @ \cup st.modules[mod].dependencies],
                 new_name, members, i + 1)

RECURSIVE fold_members_last(_, _, _, _)
\* Mutant of fold_members: each member's packages replace those collected so
\* far instead of being added to them.
fold_members_last(st, new_name, members, i) ==
  IF i > Len(members) \/ st.raised THEN st
  ELSE LET mod == members[i]
       IN IF mod = new_name
          THEN fold_members_last([st EXCEPT !.listed = FALSE, !.raised = ~st.listed],
                                 new_name, members, i + 1)
          ELSE IF mod \notin DOMAIN st.modules
          THEN [st EXCEPT !.raised = TRUE]
          ELSE fold_members_last(
                 [st EXCEPT
                    !.new_module.packages = st.modules[mod].packages,
                    !.new_module.dependencies = @ \cup st.modules[mod].dependencies,
                    !.modules = Del(st.modules, mod)],
                 new_name, members, i + 1)

RECURSIVE fold_members(_, _, _, _)
\* The first for loop of a merge: each member's packages and dependencies go
\* into new_module, and the member is deleted from the registry.
fold_members(st, new_name, members, i) ==
  IF i > Len(members) \/ st.raised THEN st
  ELSE LET mod == members[i]
       IN IF mod = new_name
          THEN fold_members([st EXCEPT !.listed = FALSE, !.raised = ~st.listed],
                            new_name, members, i + 1)
          ELSE IF mod \notin DOMAIN st.modules
          THEN [st EXCEPT !.raised = TRUE]
          ELSE fold_members(
                 [st EXCEPT
                    !.new_module.packages = @ \cup st.modules[mod].packages,
                    !.new_module.dependencies = @ \cup st.modules[mod].dependencies,
                    !.modules = Del(st.modules, mod)],
                 new_name, members, i + 1)

RECURSIVE rename_members(_, _, _, _)
\* The second for loop of a merge: every edge to a member, in every module of
\* the registry, is renamed to the composite.
rename_members(st, new_name, members, i) ==
  IF i > Len(members) \/ st.raised THEN st
  ELSE LET all == IF st.listed THEN Put(st.modules, new_name, st.new_module)
                  ELSE st.modules
           ren == rename_dependency(all, members[i], new_name)
       IN rename_members(
            [st EXCEPT !.modules = Del(ren, new_name),
                       !.new_module = IF st.listed THEN ren[new_name] ELSE @],
            new_name, members, i + 1)

\* Mutant of remove_self: the self-edge is left in place.
remove_self_skip(st, new_name) == st

\* new_module.dependencies.remove(new_module.name): a KeyError when absent.
remove_self(st, new_name) ==
  IF st.raised THEN st
  ELSE IF new_name \in st.new_module.dependencies
  THEN [st EXCEPT !.new_module.dependencies = @ \ {new_name}]
  ELSE [st EXCEPT !.raised = TRUE]

\* Mutant of renamed_root: the root keeps its name.
renamed_root_kept(root, members) == root

\* start_name after the second for loop.
renamed_root(root, members) ==
  IF root \in Range(members) THEN Join(members) ELSE root

\* The body of the collapsing loop for the cycle members: the registry it
\* leaves and whether it raised.
merge(mods, members) ==
  LET new_name == Join(members)
      st0 == [modules |-> Del(mods, new_name), new_module |-> Module,
              listed |-> TRUE, raised |-> FALSE]
      st1 == fold_members(st0, new_name, members, 1)
      st2 == rename_members(st1, new_name, members, 1)
      st3 == remove_self(st2, new_name)
  IN [modules |-> IF st3.listed THEN Put(st3.modules, new_name, st3.new_module)
                  ELSE st3.modules,
      raised |-> st3.raised]

\* One iteration of the collapsing loop that finds a cycle and merges it.
CollapseMerge ==
  /\ pc = "collapse"
  /\ \E r \in detect_loop(modules, start_name, <<>>) :
       /\ r.kind = "loop"
       /\ LET m == merge(modules, r.loop)
          IN /\ loop' = r.loop
             /\ before' = [modules |-> modules, start_name |-> start_name]
             /\ start_name' = renamed_root(start_name, r.loop)
             /\ merges' = merges + 1
             /\ modules' = m.modules
             /\ pc' = IF m.raised THEN "KeyError" ELSE "collapse"
  /\ UNCHANGED <<counter, node_names, dot_edges>>
  /\ UNCHANGED <<get_imports, root_pkg, queue, calls, prune_queue, mod_name,
                 initial, pruned, probed, exited>>

\* _detect_loop raises: a dependency is not in the registry.
CollapseRaise ==
  /\ pc = "collapse"
  /\ \E r \in detect_loop(modules, start_name, <<>>) : r.kind = "Exception"
  /\ pc' = "Exception"
  /\ UNCHANGED <<counter, node_names, dot_edges>>
  /\ UNCHANGED <<get_imports, root_pkg, modules, queue, calls, start_name,
                 prune_queue, mod_name, before, loop, merges, initial, pruned,
          probed, exited>>

\* _detect_loop returns None: the loop breaks and pruning starts at the root.
CollapseBreak ==
  /\ pc = "collapse"
  /\ None \in detect_loop(modules, start_name, <<>>)
  /\ pc' = "prune"
  /\ prune_queue' = <<start_name>>
  /\ pruned' = [modules |-> modules, start_name |-> start_name]
  /\ UNCHANGED <<counter, node_names, dot_edges>>
  /\ UNCHANGED <<get_imports, root_pkg, modules, queue, calls, start_name,
                 mod_name, before, loop, merges, initial, probed, exited>>

\* Mutant of dependency_can_be_removed: the edge is looked for in the wrong
\* direction, from the dependency to the sibling.
dependency_can_be_removed_reversed(mods, name, dependency) ==
  \E dep \in mods[name].dependencies :
    /\ dep # dependency
    /\ dep \in mods[dependency].dependencies

\* Mutant of dependency_can_be_removed: a path of three edges through two
\* other modules shadows the edge as well.
dependency_can_be_removed_two_hops(mods, name, dependency) ==
  \E dep \in mods[name].dependencies :
    /\ dep # dependency
    /\ \/ dependency \in mods[dep].dependencies
       \/ \E e \in mods[dep].dependencies \cap DOMAIN mods :
            dependency \in mods[e].dependencies

\* Mutant of dependency_can_be_removed: the sibling must have the dependency
\* as its only dependency.
dependency_can_be_removed_exact(mods, name, dependency) ==
  \E dep \in mods[name].dependencies :
    /\ dep # dependency
    /\ mods[dep].dependencies = {dependency}

\* _dependency_can_be_removed
dependency_can_be_removed(mods, name, dependency) ==
  \E dep \in mods[name].dependencies :
    /\ dep # dependency
    /\ dependency \in mods[dep].dependencies

\* The dependencies of a node the inner for loop can pick as eliminate.
eliminable(mods, name) ==
  {dep \in mods[name].dependencies : dependency_can_be_removed(mods, name, dep)}

\* queue.pop() of the pruning phase.
PrunePop ==
  /\ pc = "prune"
  /\ prune_queue # <<>>
  /\ mod_name' = prune_queue[Len(prune_queue)]
  /\ prune_queue' = SubSeq(prune_queue, 1, Len(prune_queue) - 1)
  /\ pc' = "prune_node"
  /\ UNCHANGED <<counter, node_names, dot_edges>>
  /\ UNCHANGED <<get_imports, root_pkg, modules, queue, calls, start_name,
                 before, loop, merges, initial, pruned, probed, exited>>

\* One iteration of the inner while loop that removes an edge.
PruneRemove ==
  /\ pc = "prune_node"
  /\ \E eliminate \in eliminable(modules, mod_name) :
       modules' = [modules EXCEPT ![mod_name].dependencies = @ \ {eliminate}]
  /\ UNCHANGED <<counter, node_names, dot_edges>>
  /\ UNCHANGED <<pc, get_imports, root_pkg, queue, calls, start_name,
                 prune_queue, mod_name, before, loop, merges, initial, pruned,
          probed, exited>>

\* eliminate is None: the remaining dependencies are queued.
PrunePush ==
  /\ pc = "prune_node"
  /\ eliminable(modules, mod_name) = {}
  /\ \E deps \in Orders(modules[mod_name].dependencies) :
       prune_queue' = prune_queue \o deps
  /\ pc' = "prune"
  /\ UNCHANGED <<counter, node_names, dot_edges>>
  /\ UNCHANGED <<get_imports, root_pkg, modules, queue, calls, start_name,
                 mod_name, before, loop, merges, initial, pruned, probed, exited>>

\* The queue is empty: collapse_modules returns.
PruneReturn ==
  /\ pc = "prune"
  /\ prune_queue = <<>>
  /\ pc' = "collapsed"
  /\ UNCHANGED <<counter, node_names, dot_edges>>
  /\ UNCHANGED <<get_imports, root_pkg, modules, queue, calls, start_name,
                 prune_queue, mod_name, before, loop, merges, initial, pruned,
          probed, exited>>

\* ------------------------------------------------- set_rss_for_modules
\* _imports_memory_usage: the peak resident set sizes the spawned process can
\* have when it exits with wait status 0.  The measurement is the operating
\* system's; two probes of the same imports need not agree.
imports_memory_usage(imports) == 0..MaxRss

\* Mutant of own_rss: the negative difference is kept.
own_rss_unclamped(total_rss, deps_rss) == total_rss - deps_rss

\* Mutant of own_rss: the operands are swapped.
own_rss_swapped(total_rss, deps_rss) ==
  IF deps_rss - total_rss < 0 THEN 0 ELSE deps_rss - total_rss

\* own_rss as _set_rss_for_module leaves it: the difference, or 0 when the
\* difference is negative.
own_rss(total_rss, deps_rss) ==
  IF total_rss - deps_rss < 0 THEN 0 ELSE total_rss - deps_rss

\* The import paths of the second probe: the packages of the dependencies.
deps_packages(mods, name) ==
  UNION {mods[dep].packages : dep \in mods[name].dependencies}

\* _set_rss_for_module for the next name of the for loop of
\* set_rss_for_modules, both probes exiting with wait status 0.
SetRssForModule ==
  /\ pc = "set_rss"
  /\ \E name \in DOMAIN modules \ DOMAIN probed :
       LET deps == deps_packages(modules, name)
       IN \E total_rss \in imports_memory_usage(modules[name].packages),
             deps_rss \in imports_memory_usage(deps) :
            /\ modules' = [modules EXCEPT
                             ![name].total_rss = total_rss,
                             ![name].own_rss = own_rss(total_rss, deps_rss)]
            /\ probed' = Put(probed, name,
                             [imports |-> modules[name].packages,
                              deps |-> deps,
                              deps_rss |-> deps_rss,
                              warned |-> total_rss - deps_rss < 0])
  /\ exited' = 0
  /\ UNCHANGED <<counter, node_names, dot_edges>>
  /\ UNCHANGED <<pc, get_imports, root_pkg, queue, calls, start_name,
                 prune_queue, mod_name, before, loop, merges, initial, pruned>>

\* A probe of _set_rss_for_module exits with another wait status: the
\* exception ends the run.  When it is the second probe, total_rss is set.
SetRssRaise ==
  /\ pc = "set_rss"
  /\ \E name \in DOMAIN modules \ DOMAIN probed :
       \/ modules' = modules
       \/ \E total_rss \in imports_memory_usage(modules[name].packages) :
            modules' = [modules EXCEPT ![name].total_rss = total_rss]
  /\ exited' = 1
  /\ pc' = "Exception"
  /\ UNCHANGED <<counter, node_names, dot_edges>>
  /\ UNCHANGED <<get_imports, root_pkg, queue, calls, start_name, prune_queue,
                 mod_name, before, loop, merges, initial, pruned, probed>>

\* The for loop of set_rss_for_modules is over.
SetRssReturn ==
  /\ pc = "set_rss"
  /\ DOMAIN modules = DOMAIN probed
  /\ pc' = "rss_set"
  /\ UNCHANGED <<counter, node_names, dot_edges>>
  /\ UNCHANGED <<get_imports, root_pkg, modules, queue, calls, start_name,
                 prune_queue, mod_name, before, loop, merges, initial, pruned,
                 probed, exited>>

\* ------------------------------------------------------------ print_dot
\* print_dot reads a module name character by character: in this part a
\* name is the sequence of its characters, the newline of a composite
\* included.
\* The characters _invalid_dot_chars leaves alone: [0-9A-Za-z_].
DigitChars == <<"0", "1", "2", "3", "4", "5", "6", "7", "8", "9">>

ValidDotChars ==
  Range(DigitChars) \cup {"_"} \cup
  {"a", "b", "c", "d", "e", "f", "g", "h", "i", "j", "k", "l", "m",
   "n", "o", "p", "q", "r", "s", "t", "u", "v", "w", "x", "y", "z",
   "A", "B", "C", "D", "E", "F", "G", "H", "I", "J", "K", "L", "M",
   "N", "O", "P", "Q", "R", "S", "T", "U", "V", "W", "X", "Y", "Z"}

\* _invalid_dot_chars.sub("_", name)
invalid_dot_chars_sub(name) ==
  [i \in 1..Len(name) |-> IF name[i] \in ValidDotChars THEN name[i] ELSE "_"]

RECURSIVE format_int(_)
\* "{}".format(n) of a natural number: its decimal digits.
format_int(n) ==
  IF n < 10 THEN <<DigitChars[n + 1]>>
  ELSE format_int(n \div 10) \o <<DigitChars[(n % 10) + 1]>>

\* _dot_node_name(unique_id, name)
dot_node_name(unique_id, name) ==
  <<"n", "o", "d", "e">> \o format_int(unique_id) \o <<"_">>
    \o invalid_dot_chars_sub(name)

\* One iteration of the first loop of print_dot: the next module of
\* modules.values() gets its node identifier.  The loop never assigns to
\* counter.
PrintDotNode ==
  /\ pc = "print_dot"
  /\ \E name \in DOMAIN modules \ DOMAIN node_names :
       node_names' = Put(node_names, name, dot_node_name(counter, name))
  /\ UNCHANGED counter
  /\ UNCHANGED dot_edges
  /\ UNCHANGED <<pc, get_imports, root_pkg, modules, queue, calls, start_name,
                 prune_queue, mod_name, before, loop, merges, initial, pruned,
                 probed, exited>>

\* The second loop of print_dot: one line per dependency edge.
PrintDotEdges ==
  /\ pc = "print_dot"
  /\ DOMAIN node_names = DOMAIN modules
  /\ dot_edges' = UNION {{<<node_names[name], node_names[dep]>> :
                              dep \in modules[name].dependencies} :
                            name \in DOMAIN modules}
  /\ pc' = "printed"
  /\ UNCHANGED <<counter, node_names>>
  /\ UNCHANGED <<get_imports, root_pkg, modules, queue, calls, start_name,
                 prune_queue, mod_name, before, loop, merges, initial, pruned,
                 probed, exited>>

\* ------------------------------------------------------ specifications
SmallSets == {S \in SUBSET Paths : Cardinality(S) <= MaxImports}

RECURSIVE closure(_, _)
\* The import paths get_modules traces: the root and everything traced from it.
closure(f, S) ==
  LET T == S \cup UNION {f[p] : p \in S}
  IN IF T = S THEN S ELSE closure(f, T)

\* main: get_modules(module_name) on an empty registry.  The tracer is any
\* function; what it reports for a path that is never traced is left empty.
Init ==
  /\ pc = "get_modules"
  /\ root_pkg \in RootPkgs
  /\ get_imports \in [Paths -> SmallSets]
  /\ \A p \in Paths \ closure(get_imports, {root_pkg}) : get_imports[p] = {}
  /\ modules = NoModules
  /\ queue = <<root_pkg>>
  /\ calls = [p \in Paths |-> 0]
  /\ start_name = <<>>
  /\ prune_queue = <<>>
  /\ mod_name = <<>>
  /\ before = [modules |-> NoModules, start_name |-> <<>>]
  /\ loop = <<>>
  /\ merges = 0
  /\ initial = NoModules
  /\ pruned = [modules |-> NoModules, start_name |-> <<>>]
  /\ probed = <<>>
  /\ exited = 0
  /\ counter = 0
  /\ node_names = <<>>
  /\ dot_edges = {}

Next ==
  \/ GetModulesStep
  \/ GetModulesReturn
  \/ CollapseMerge
  \/ CollapseBreak
  \/ PrunePop
  \/ PruneRemove
  \/ PrunePush
  \/ PruneReturn

Spec == Init /\ [][Next]_vars

\* A registry over the given names with no self-loop and no dangling edge; a
\* name's packages are the import paths of its lines.
Registries(names) ==
  {[n \in names |-> [Module EXCEPT !.packages = {<<n[i]>> : i \in 1..Len(n)},
                                    !.dependencies = deps[n]]] :
     deps \in {d \in [names -> SUBSET names] : \A n \in names : n \notin d[n]}}

\* collapse_modules(modules, start_name) called on any such registry.
InitCollapse ==
  /\ pc = "collapse"
  /\ modules \in Registries(Names)
  /\ start_name = <<"a">>
  /\ initial = modules
  /\ get_imports = <<>>
  /\ root_pkg = <<>>
  /\ queue = <<>>
  /\ calls = <<>>
  /\ prune_queue = <<>>
  /\ mod_name = <<>>
  /\ before = [modules |-> NoModules, start_name |-> <<>>]
  /\ loop = <<>>
  /\ merges = 0
  /\ pruned = [modules |-> NoModules, start_name |-> <<>>]
  /\ probed = <<>>
  /\ exited = 0
  /\ counter = 0
  /\ node_names = <<>>
  /\ dot_edges = {}

NextCollapse ==
  \/ CollapseMerge
  \/ CollapseBreak
  \/ PrunePop
  \/ PruneRemove
  \/ PrunePush
  \/ PruneReturn

SpecCollapse == InitCollapse /\ [][NextCollapse]_vars

\* The names of the registries given directly to set_rss_for_modules: two
\* modules of the builder and a composite.
RssNames == {<<"a">>, <<"b">>, <<"c", "d">>}

\* set_rss_for_modules(modules) called on any such registry.
InitRss ==
  /\ pc = "set_rss"
  /\ modules \in Registries(RssNames)
  /\ probed = <<>>
  /\ exited = 0
  /\ counter = 0
  /\ node_names = <<>>
  /\ dot_edges = {}
  /\ start_name = <<>>
  /\ initial = NoModules
  /\ get_imports = <<>>
  /\ root_pkg = <<>>
  /\ queue = <<>>
  /\ calls = <<>>
  /\ prune_queue = <<>>
  /\ mod_name = <<>>
  /\ before = [modules |-> NoModules, start_name |-> <<>>]
  /\ loop = <<>>
  /\ merges = 0
  /\ pruned = [modules |-> NoModules, start_name |-> <<>>]

NextRss ==
  \/ SetRssForModule
  \/ SetRssRaise
  \/ SetRssReturn

SpecRss == InitRss /\ [][NextRss]_vars

\* The names of the registries given directly to print_dot, each the
\* sequence of its characters: the composite of the modules "f" and "b",
\* and the modules "f_b" and "c".
DotNames == {<<"f", "\n", "b">>, <<"f", "_", "b">>, <<"c">>}

RECURSIVE split_lines(_)
\* name.split("\n") of a sequence of characters: the set of its lines.
split_lines(name) ==
  IF \E i \in 1..Len(name) : name[i] = "\n"
  THEN LET i == CHOOSE i \in 1..Len(name) :
                  name[i] = "\n" /\ \A j \in 1..(i - 1) : name[j] # "\n"
       IN {SubSeq(name, 1, i - 1)} \cup split_lines(SubSeq(name, i + 1, Len(name)))
  ELSE {name}

\* A registry over the given names with no self-loop and no dangling edge; a
\* name's packages are the import paths of its lines.
DotRegistries(names) ==
  {[n \in names |-> [Module EXCEPT !.packages = split_lines(n),
                                    !.dependencies = deps[n]]] :
     deps \in {d \in [names -> SUBSET names] : \A n \in names : n \notin d[n]}}

\* print_dot(modules) called on any registry over some of these names.
InitDot ==
  /\ pc = "print_dot"
  /\ \E names \in SUBSET DotNames : modules \in DotRegistries(names)
  /\ counter = 0
  /\ node_names = <<>>
  /\ dot_edges = {}
  /\ probed = <<>>
  /\ exited = 0
  /\ start_name = <<>>
  /\ initial = NoModules
  /\ get_imports = <<>>
  /\ root_pkg = <<>>
  /\ queue = <<>>
  /\ calls = <<>>
  /\ prune_queue = <<>>
  /\ mod_name = <<>>
  /\ before = [modules |-> NoModules, start_name |-> <<>>]
  /\ loop = <<>>
  /\ merges = 0
  /\ pruned = [modules |-> NoModules, start_name |-> <<>>]

NextDot ==
  \/ PrintDotNode
  \/ PrintDotEdges

SpecDot == InitDot /\ [][NextDot]_vars

\* The module names of the registries with dangling edges, and the names
\* such an edge may point to: a name no merge creates and the name of the
\* composite of "a" and "b".
DanglingNames == {<<"a">>, <<"b">>, <<"c">>}

MissingNames == {<<"z">>, <<"a", "b">>}

\* A registry over the given names with no self-loop, whose edges may point
\* to the missing names.
DanglingRegistries(names, missing) ==
  {[n \in names |-> [Module EXCEPT !.packages = {<<n[i]>> : i \in 1..Len(n)},
                                    !.dependencies = deps[n]]] :
     deps \in {d \in [names -> SUBSET (names \cup missing)] :
                 \A n \in names : n \notin d[n]}}

\* collapse_modules(modules, start_name) called on any such registry.
InitDangling ==
  /\ pc = "collapse"
  /\ modules \in DanglingRegistries(DanglingNames, MissingNames)
  /\ start_name = <<"a">>
  /\ initial = modules
  /\ get_imports = <<>>
  /\ root_pkg = <<>>
  /\ queue = <<>>
  /\ calls = <<>>
  /\ prune_queue = <<>>
  /\ mod_name = <<>>
  /\ before = [modules |-> NoModules, start_name |-> <<>>]
  /\ loop = <<>>
  /\ merges = 0
  /\ pruned = [modules |-> NoModules, start_name |-> <<>>]
  /\ probed = <<>>
  /\ exited = 0
  /\ counter = 0
  /\ node_names = <<>>
  /\ dot_edges = {}

NextDangling ==
  \/ CollapseMerge
  \/ CollapseRaise
  \/ CollapseBreak
  \/ PrunePop
  \/ PruneRemove
  \/ PrunePush
  \/ PruneReturn

SpecDangling == InitDangling /\ [][NextDangling]_vars


\* ------------------------------------------------------------- graphs
NoDangling(mods) ==
  \A k \in DOMAIN mods : mods[k].dependencies \subseteq DOMAIN mods

NoSelfLoops(mods) ==
  \A k \in DOMAIN mods : k \notin mods[k].dependencies

RECURSIVE Reachable(_, _)
\* The names reachable from the names S along dependency edges, S included.
Reachable(mods, S) ==
  LET T == S \cup UNION {mods[k].dependencies : k \in S \cap DOMAIN mods}
  IN IF T = S THEN S ELSE Reachable(mods, T)

\* Some module reachable from root lies on a directed cycle.
HasCycle(mods, root) ==
  \E k \in Reachable(mods, {root}) \cap DOMAIN mods :
    k \in Reachable(mods, mods[k].dependencies)

Collapsing == pc \in {"collapse", "KeyError", "Exception"}

Pruning == pc \in {"prune", "prune_node", "collapsed"}

\* ------------------------------------------------------------- claims
\* C1: no dangling edges.  Once get_modules has returned, so after every
\* completed collapse iteration and after every edge removal of the pruning
\* phase, every dependency of every module is a key of the registry, and the
\* search for a cycle cannot raise.
C1_NoDanglingEdges ==
  pc # "get_modules" =>
    /\ NoDangling(modules)
    /\ ~ENABLED CollapseRaise

\* A cycle was merged, a module outside it has its edge renamed to the
\* composite, and pruning has run to its end.
C1_Witness ==
  /\ pc = "collapsed"
  /\ merges >= 1
  /\ \E k \in DOMAIN modules :
       /\ Len(k) = 1
       /\ \E d \in modules[k].dependencies : Len(d) > 1

\* C2: no self-loops.  While get_modules runs and after it returns, after
\* every completed collapse iteration and after every pruning removal, no
\* module depends on itself, and the removal of the composite's self-edge
\* never raises KeyError.
C2_NoSelfLoops ==
  /\ NoSelfLoops(modules)
  /\ pc # "KeyError"

\* The tracer reported an import path of the traced module itself, and later
\* a cycle was merged: the composite is in the registry without a self-edge.
C2_Witness ==
  /\ pc = "collapse"
  /\ merges >= 1
  /\ Join(loop) \in DOMAIN modules
  /\ \E p \in Paths :
       /\ calls[p] = 1
       /\ \E q \in get_imports[p] : module_name(q) = module_name(p)

\* C3: collapse termination.  An iteration of the collapsing loop never
\* raises: it merges a cycle or exits the loop.  Every merge strictly
\* decreases the number of modules, which is never below 1, so the loop
\* exits, and the number of merges is at most the initial module count minus
\* the current one.
C3_CollapseTerminates ==
  /\ [][merges' = merges + 1 =>
          Cardinality(DOMAIN modules') < Cardinality(DOMAIN modules)]_vars
  /\ [][(pc = "collapse" /\ pc' # "collapse") => pc' = "prune"]_vars
  /\ [](pc = "collapse" =>
          \A r \in detect_loop(modules, start_name, <<>>) : r.kind # "Exception")
  /\ [](Cardinality(DOMAIN modules) >= 1)
  /\ [](merges <= Cardinality(DOMAIN initial) - Cardinality(DOMAIN modules))

\* The loop ended after two merges.
C3_Witness ==
  /\ pc = "prune"
  /\ merges = 2

\* C4: acyclicity after collapse.  The registry the collapsing loop exits
\* with has no directed cycle reachable from the root.
C4_AcyclicAfterCollapse ==
  Pruning => ~HasCycle(pruned.modules, pruned.start_name)

\* The loop exited after two merges, the root being part of a composite
\* that still has a dependency.
C4_Witness ==
  /\ pc = "prune"
  /\ merges = 2
  /\ modules = pruned.modules
  /\ Len(start_name) > 1
  /\ modules[start_name].dependencies # {}

\* The dependencies of a module outside the cycle after the merge: the
\* members of the cycle replaced by the composite.
Replaced(deps, members, new_name) ==
  IF deps \cap members = {} THEN deps ELSE (deps \ members) \cup {new_name}

\* C5: collapse preserves external edges.  After a collapse iteration that
\* merged the cycle loop, every module outside the cycle is still in the
\* registry and its dependencies are the previous ones with every member of
\* the cycle replaced by the composite.
C5_CollapsePreservesExternalEdges ==
  (Collapsing /\ merges >= 1) =>
    /\ Join(loop) \in DOMAIN modules
    /\ \A x \in DOMAIN before.modules \ Range(loop) :
         /\ x \in DOMAIN modules
         /\ modules[x].dependencies =
              Replaced(before.modules[x].dependencies, Range(loop), Join(loop))

\* A module outside the merged cycle depended on two members of the cycle
\* and on a module outside it.
C5_Witness ==
  /\ pc = "collapse"
  /\ merges >= 1
  /\ \E x \in DOMAIN before.modules \ Range(loop) :
       /\ Cardinality(before.modules[x].dependencies \cap Range(loop)) >= 2
       /\ before.modules[x].dependencies \ Range(loop) # {}
       /\ Join(loop) \in modules[x].dependencies

\* C6: prune preserves reachability.  From the start of the pruning phase,
\* after every edge removal and at its end, the modules reachable from the
\* root are those reachable when pruning began.
C6_PrunePreservesReachability ==
  Pruning =>
    Reachable(modules, {start_name}) =
      Reachable(pruned.modules, {pruned.start_name})

\* Pruning ended having removed an edge.
C6_Witness ==
  /\ pc = "collapsed"
  /\ \E k \in DOMAIN modules :
       modules[k].dependencies # pruned.modules[k].dependencies

\* C7: negative delta clamped.  For every module _set_rss_for_module has
\* completed: the first probe was of its packages, the second of the packages
\* of its direct dependencies, own_rss is max(0, total_rss - deps_rss), a
\* negative difference is warned about, and only a probe's wait status ends
\* the run early: without one, every module is attributed.
C7_NegativeDeltaClamped ==
  /\ \A name \in DOMAIN probed :
       LET m == modules[name]
           p == probed[name]
       IN /\ p.imports = m.packages
          /\ p.deps = UNION {modules[d].packages : d \in m.dependencies}
          /\ m.own_rss >= 0
          /\ m.total_rss >= p.deps_rss => m.own_rss = m.total_rss - p.deps_rss
          /\ m.total_rss < p.deps_rss => m.own_rss = 0 /\ p.warned
  /\ pc = "Exception" => exited # 0
  /\ pc = "rss_set" => DOMAIN probed = DOMAIN modules

\* Attribution ended with every module attributed, one of them with a total
\* below the probe of its dependencies.
C7_Witness ==
  /\ pc = "rss_set"
  /\ \E name \in DOMAIN probed :
       /\ modules[name].total_rss < probed[name].deps_rss
       /\ modules[name].own_rss = 0

\* C8: attribution consistency.  A module with no dependencies whose second
\* probe, of the empty set of import paths, gave the baseline 0 has
\* own_rss = total_rss.
C8_AttributionConsistency ==
  \A name \in DOMAIN probed :
    (modules[name].dependencies = {} /\ probed[name].deps_rss = 0) =>
      /\ probed[name].deps = {}
      /\ modules[name].own_rss = modules[name].total_rss

\* A module with no dependencies was attributed a positive total.
C8_Witness ==
  \E name \in DOMAIN probed :
    /\ modules[name].dependencies = {}
    /\ probed[name].deps_rss = 0
    /\ modules[name].total_rss > 0
    /\ modules[name].own_rss = modules[name].total_rss

\* The registry the claim describes for a tracer f and a root package.
Expected(f, root) ==
  LET traced == closure(f, {root})
      names == {<<p[1]>> : p \in traced}
  IN [n \in names |->
        LET packages == {p \in traced : <<p[1]>> = n}
        IN [packages |-> packages,
            dependencies |->
              {<<q[1]>> : q \in UNION {f[p] : p \in packages}} \ {n},
            own_rss |-> 0,
            total_rss |-> 0]]

\* C9: builder order independence.  Whatever order the tracer lists its
\* results in, get_modules returns the registry fixed by the tracer and the
\* root: a module per top-level name of the trace closure, with the paths of
\* the closure as packages and an edge to every other module traced from one
\* of its paths; the root name is the top-level name of the root package.
C9_BuilderOrderIndependence ==
  pc # "get_modules" =>
    /\ initial = Expected(get_imports, root_pkg)
    /\ (pc = "collapse" /\ merges = 0) =>
         modules = initial /\ start_name = <<root_pkg[1]>>

\* get_modules returned three modules, one with two packages and two
\* dependencies traced in either order.
C9_Witness ==
  /\ pc = "collapse"
  /\ merges = 0
  /\ Cardinality(DOMAIN modules) = 3
  /\ \E k \in DOMAIN modules, p \in Paths :
       /\ Cardinality(modules[k].packages) = 2
       /\ Cardinality(modules[k].dependencies) = 2
       /\ p \in modules[k].packages
       /\ Cardinality({<<q[1]>> : q \in get_imports[p]} \ {k}) = 2

\* The import paths the tracer has not been called for.
Untraced == {p \in Paths : calls[p] = 0}

\* C10: builder termination.  The tracer is called at most once per import
\* path; an iteration of get_modules either calls it for a path not traced
\* before or skips a path already in its module's packages, shortening the
\* queue by one, so the loop ends; when it ends, the queue is empty.
C10_BuilderTerminates ==
  /\ [](\A p \in Paths : calls[p] <= 1)
  /\ [](pc # "get_modules" => queue = <<>>)
  /\ [][(pc = "get_modules" /\ queue # <<>>) =>
          LET pkg == queue[Len(queue)]
              mod == <<pkg[1]>>
          IN /\ pc' = "get_modules"
             /\ IF mod \in DOMAIN modules /\ pkg \in modules[mod].packages
                THEN /\ calls' = calls
                     /\ queue' = SubSeq(queue, 1, Len(queue) - 1)
                ELSE /\ pkg \in Untraced
                     /\ Untraced' = Untraced \ {pkg}]_vars
  /\ [][(pc = "get_modules" /\ queue = <<>>) => pc' # "get_modules"]_vars

\* get_modules returned after a path was queued again and skipped: two
\* paths traced each other.
C10_Witness ==
  /\ pc = "collapse"
  /\ merges = 0
  /\ \E p, q \in Paths :
       /\ p # q
       /\ q \in get_imports[p]
       /\ p \in get_imports[q]
       /\ calls[p] = 1
       /\ calls[q] = 1

\* C11: print_dot gives any two distinct modules distinct node identifiers
\* (the counter tells apart names that are equal once the characters outside
\* [0-9A-Za-z_] are replaced), so an edge written names exactly one node.
C11_NodeIdentifiersDistinct ==
  \A m1 \in DOMAIN node_names : \A m2 \in DOMAIN node_names :
    m1 # m2 => node_names[m1] # node_names[m2]

\* The names that are not in the registry and that an edge of a module
\* reachable from root points to.
Dangling(mods, root) ==
  {d \in UNION {mods[k].dependencies : k \in Reachable(mods, {root}) \cap DOMAIN mods} :
     d \notin DOMAIN mods}

MutuallyReachable(mods, x, y) ==
  /\ y \in Reachable(mods, {x})
  /\ x \in Reachable(mods, {y})

\* C13: collapsing computes the condensation.  When the collapsing loop has
\* ended, every original module reachable from the root is a line of exactly
\* one final module's name; two of them are lines of the same final module
\* exactly when each is reachable from the other in the original graph; and
\* one that is on no cycle is still a module of its own.  The partition
\* depends on the original graph only, so not on the iteration order.
C13_CollapseIsCondensation ==
  Pruning =>
    LET R == Reachable(initial, {<<"a">>})
        final == DOMAIN pruned.modules
    IN /\ \A x \in R : Cardinality({k \in final : x[1] \in Range(k)}) = 1
       /\ \A x \in R : \A y \in R :
            (\E k \in final : {x[1], y[1]} \subseteq Range(k))
              <=> MutuallyReachable(initial, x, y)
       /\ \A x \in R :
            (\A y \in R \ {x} : ~MutuallyReachable(initial, x, y)) => x \in final

\* Every module was reachable from the root, and two merges left two
\* composites of two modules each.
C13_Witness ==
  /\ pc = "prune"
  /\ merges = 2
  /\ Reachable(initial, {<<"a">>}) = Names
  /\ Cardinality(DOMAIN modules) = 2
  /\ \A k \in DOMAIN modules : Len(k) = 2

\* The list L is a directed cycle of the graph mods: at least two names,
\* pairwise distinct, all in the registry, each with the next one among its
\* dependencies and the last with the first.
IsCycle(mods, L) ==
  /\ Len(L) >= 2
  /\ Cardinality(Range(L)) = Len(L)
  /\ Range(L) \subseteq DOMAIN mods
  /\ \A i \in 1..Len(L) : L[(i % Len(L)) + 1] \in mods[L[i]].dependencies

\* C14: a detected cycle is a real cycle.  Whatever list _detect_loop
\* returns from the root is a directed cycle of the registry, and the merged
\* list was one of the registry before the merge; when no cycle is reachable
\* from the root it returns None under every iteration order (and not when
\* there is one), and the step that gets None leaves the registry and the
\* root as they are.
C14_DetectedLoopIsCycle ==
  /\ [](pc = "collapse" =>
          /\ \A r \in detect_loop(modules, start_name, <<>>) :
               r.kind = "loop" => IsCycle(modules, r.loop)
          /\ HasCycle(modules, start_name) <=>
               None \notin detect_loop(modules, start_name, <<>>)
          /\ ~HasCycle(modules, start_name) =>
               detect_loop(modules, start_name, <<>>) = {None})
  /\ []((Collapsing /\ merges >= 1) => IsCycle(before.modules, loop))
  /\ [][(pc = "collapse" /\ pc' = "prune") =>
          (modules' = modules /\ start_name' = start_name)]_vars

\* The search returned a cycle of three modules that the root is not part
\* of, and the registry the merge left has no cycle.
C14_Witness ==
  /\ pc = "collapse"
  /\ merges = 1
  /\ Len(loop) = 3
  /\ before.start_name \notin Range(loop)
  /\ ~HasCycle(modules, start_name)

\* C15: the composite's name never collides.  In every iteration of the
\* collapsing loop the name joined from the returned cycle, whichever cycle
\* that is, is not a key of the registry; so the merge overwrites nothing:
\* after it the keys are the former ones without the members plus the one
\* new name, and every module outside the cycle holds the packages it held.
C15_CompositeNameIsNew ==
  /\ pc = "collapse" =>
       \A r \in detect_loop(modules, start_name, <<>>) :
         r.kind = "loop" => Join(r.loop) \notin DOMAIN modules
  /\ (Collapsing /\ merges >= 1) =>
       /\ Join(loop) \notin DOMAIN before.modules
       /\ DOMAIN modules = (DOMAIN before.modules \ Range(loop)) \cup {Join(loop)}
       /\ Cardinality(DOMAIN modules) =
            Cardinality(DOMAIN before.modules) - Len(loop) + 1
       /\ \A x \in DOMAIN before.modules \ Range(loop) :
            modules[x].packages = before.modules[x].packages

\* The second merge joined the composite of the first with a module of the
\* builder.
C15_Witness ==
  /\ pc = "collapse"
  /\ merges = 2
  /\ \E m \in Range(loop) : Len(m) = 2
  /\ \E m \in Range(loop) : Len(m) = 1
  /\ Len(Join(loop)) = 3

\* C16: the root follows the merge.  After every completed iteration of the
\* collapsing loop the root is a key of the registry: it is the composite's
\* name when the previous root was a member of the merged cycle, and the
\* previous root otherwise.  The pruning phase starts with the root the loop
\* ended with, alone in its work list.
C16_RootFollowsMerge ==
  /\ []((pc = "collapse" /\ merges >= 1) =>
          /\ start_name \in DOMAIN modules
          /\ before.start_name \in Range(loop) => start_name = Join(loop)
          /\ before.start_name \notin Range(loop) => start_name = before.start_name
          /\ (start_name = Join(loop)) <=> (before.start_name \in Range(loop)))
  /\ [](Pruning => (pruned.start_name = start_name /\ start_name \in DOMAIN modules))
  /\ [][(pc = "collapse" /\ pc' = "prune") =>
          (prune_queue' = <<start_name>> /\ start_name' = start_name)]_vars

\* The root, a composite of an earlier merge, was a member of the cycle
\* merged last.
C16_Witness ==
  /\ pc = "collapse"
  /\ merges = 2
  /\ Len(before.start_name) = 2
  /\ before.start_name \in Range(loop)
  /\ start_name = Join(loop)
  /\ Cardinality(DOMAIN modules) = 2

\* The dependency sets of a registry.
Edges(mods) == [k \in DOMAIN mods |-> mods[k].dependencies]

\* The diamond: a depends on b, c and d; b and c depend on d.
Diamond ==
  (<<"a">> :> {<<"b">>, <<"c">>, <<"d">>}) @@ (<<"b">> :> {<<"d">>}) @@
  (<<"c">> :> {<<"d">>}) @@ (<<"d">> :> {})

\* The module A has a dependency other than B that has B among its
\* dependencies.
Shadowed(mods, A, B) ==
  \E C \in mods[A].dependencies \ {B} : B \in mods[C].dependencies

\* C17: pruning removes one-hop-shadowed edges and nothing else.  A step of
\* the pruning phase that changes the registry removes one edge A -> B that
\* is shadowed at that moment, and changes nothing else; so keys and
\* packages stay as they were when pruning began and no edge is added.  An
\* edge that was not shadowed when pruning began is kept, whatever longer
\* paths there are.  Of the diamond exactly the edge a -> d is removed.
C17_PruneRemovesOnlyShadowedEdges ==
  /\ [][(Pruning /\ modules' # modules) =>
          \E A \in DOMAIN modules : \E B \in modules[A].dependencies :
            /\ Shadowed(modules, A, B)
            /\ modules' = [modules EXCEPT ![A].dependencies = @ \ {B}]]_vars
  /\ [](Pruning =>
          /\ DOMAIN modules = DOMAIN pruned.modules
          /\ \A k \in DOMAIN modules :
               /\ modules[k].packages = pruned.modules[k].packages
               /\ modules[k].dependencies \subseteq pruned.modules[k].dependencies
               /\ \A B \in pruned.modules[k].dependencies :
                    ~Shadowed(pruned.modules, k, B) => B \in modules[k].dependencies)
  /\ []((pc = "collapsed" /\ Edges(initial) = Diamond) =>
          Edges(modules) = [Diamond EXCEPT ![<<"a">>] = {<<"b">>, <<"c">>}])

\* Pruning of the diamond has ended, the edge a -> d removed.
C17_Witness ==
  /\ pc = "collapsed"
  /\ Edges(initial) = Diamond
  /\ <<"d">> \notin modules[<<"a">>].dependencies
  /\ modules[<<"a">>].dependencies = {<<"b">>, <<"c">>}

RECURSIVE Weight(_, _)
RECURSIVE SumWeights(_, _)
\* The number of paths that start at the module n of an acyclic graph, the
\* empty one included: what a traversal without a visited set has to do
\* for n.
Weight(mods, n) == 1 + SumWeights(mods, mods[n].dependencies)

SumWeights(mods, S) ==
  IF S = {} THEN 0
  ELSE LET x == CHOOSE x \in S : TRUE
       IN Weight(mods, x) + SumWeights(mods, S \ {x})

RECURSIVE SeqWeights(_, _)
SeqWeights(mods, q) ==
  IF q = <<>> THEN 0 ELSE Weight(mods, Head(q)) + SeqWeights(mods, Tail(q))

\* The work the pruning phase has left.
PruneMeasure ==
  IF pc = "prune" THEN 2 * SeqWeights(modules, prune_queue) + 1
  ELSE IF pc = "prune_node"
  THEN 2 * SeqWeights(modules, prune_queue) + 2 * Weight(modules, mod_name)
  ELSE 0

\* C18: pruning terminates at a fixed point.  Every step of the pruning
\* phase strictly decreases a measure that is never negative, and a state of
\* the phase that is not its end has a next step (the work list holds keys
\* only), so the phase ends.  When it has ended, no module reachable from
\* the root has two distinct dependencies B and C with B among the
\* dependencies of C.
C18_PruneReachesFixedPoint ==
  /\ [][(pc \in {"prune", "prune_node"}) => PruneMeasure' < PruneMeasure]_vars
  /\ [](Pruning => PruneMeasure >= 0)
  /\ [](pc = "prune" => Range(prune_queue) \subseteq DOMAIN modules)
  /\ [](pc = "prune_node" =>
          /\ mod_name \in DOMAIN modules
          /\ Range(prune_queue) \subseteq DOMAIN modules
          /\ modules[mod_name].dependencies \subseteq DOMAIN modules)
  /\ [](pc = "collapsed" =>
          \A A \in Reachable(modules, {start_name}) :
            \A B \in modules[A].dependencies : \A C \in modules[A].dependencies :
              B # C => B \notin modules[C].dependencies)

\* Pruning has ended after removing an edge of a module and an edge of one
\* of its dependencies, and every module is still reachable.
C18_Witness ==
  /\ pc = "collapsed"
  /\ \E A \in DOMAIN modules : \E C \in modules[A].dependencies :
       /\ modules[A].dependencies # pruned.modules[A].dependencies
       /\ modules[C].dependencies # pruned.modules[C].dependencies
  /\ Reachable(modules, {start_name}) = Names

RECURSIVE prune_node_one_order(_, _)
\* The inner while loop of the pruning phase for the node name, the for loop
\* picking one fixed eliminable dependency each time.
prune_node_one_order(mods, name) ==
  IF eliminable(mods, name) = {} THEN mods
  ELSE LET eliminate == CHOOSE dep \in eliminable(mods, name) : TRUE
       IN prune_node_one_order(
            [mods EXCEPT ![name].dependencies = @ \ {eliminate}], name)

RECURSIVE prune_one_order(_, _)
\* The pruning phase run to its end from the work list q, every set iterated
\* in one fixed order: one of the runs the code can make.
prune_one_order(mods, q) ==
  IF q = <<>> THEN mods
  ELSE LET name == q[Len(q)]
           left == prune_node_one_order(mods, name)
           deps == CHOOSE d \in Orders(left[name].dependencies) : TRUE
       IN prune_one_order(left, SubSeq(q, 1, Len(q) - 1) \o deps)

\* C19: the pruning result is independent of the iteration order.  For the
\* graph and root the pruning phase starts with, every run ends with the same
\* edges: those of the run that iterates every set in one fixed order.
C19_PruneOrderIndependent ==
  pc = "collapsed" =>
    Edges(modules) = Edges(prune_one_order(pruned.modules, <<pruned.start_name>>))

\* The modules of a registry that hold the import path p.
Holders(mods, p) == {k \in DOMAIN mods : p \in mods[k].packages}

\* The import paths a registry holds.
AllPackages(mods) == UNION {mods[k].packages : k \in DOMAIN mods}

\* C20: import paths stay partitioned.  When get_modules has returned, and
\* after every merge and every pruning step, each import path the builder
\* recorded (each traced path) is in the packages of exactly one module and
\* the registry holds no other path; the composite of a merge holds exactly
\* the packages its members held.
C20_PackagesStayPartitioned ==
  pc # "get_modules" =>
    /\ AllPackages(initial) = closure(get_imports, {root_pkg})
    /\ AllPackages(modules) = AllPackages(initial)
    /\ \A p \in AllPackages(initial) : Cardinality(Holders(modules, p)) = 1
    /\ (Collapsing /\ merges >= 1) =>
         modules[Join(loop)].packages =
           UNION {before.modules[m].packages : m \in Range(loop)}

\* Pruning has ended after a merge of the module that holds two import
\* paths with another module, a third module being left.
C20_Witness ==
  /\ pc = "collapsed"
  /\ merges = 1
  /\ Cardinality(modules[Join(loop)].packages) = 3
  /\ Cardinality(DOMAIN modules) = 2
  /\ modules[start_name].dependencies # {}

====
